---------------------------- MODULE Spec2Model ----------------------------
(***************************************************************************)
(* pandastim: stimulus presentation on top of a per-frame task scheduler.  *)
(*                                                                         *)
(* The module models the three stimulus programs of the repository as      *)
(* state machines over one set of variables:                               *)
(*   SpecMyApp      drifting_grating_experiment.MyApp (event timeline)     *)
(*   SpecStimulus   stimulus_classes.FullFieldDrift, FullFieldStatic,      *)
(*                  BinocularDrift, BinocularStatic and                    *)
(*                  FullFieldDriftExperiment                               *)
(*   SpecTexture    drifting_grating_experiment.square8bit                 *)
(* Elapsed time (task.time) is counted in integer ticks, velocities in     *)
(* integer units, so that a texture offset time*velocity is an integer.    *)
(* A variable a program does not use keeps its idle value under that       *)
(* program's specification.                                                *)
(***************************************************************************)
EXTENDS Integers, Sequences, FiniteSets, TLC

VARIABLES
    \* ---- the host engine, shared by every program
    time,                  \* task.time of the latest frame callback
    returned,              \* what the latest callback returned: "none" before the
                           \* first one, "cont", "done", or "raise"
    raised,                \* the exception that ended the program, or "none"
    tasks,                 \* names of the tasks the task manager will call
    title,                 \* the window title last requested
    \* ---- drifting_grating_experiment: module level parameters and MyApp
    stim_durations,
    inter_stimulus_times,
    event_change_times,    \* the module level array of this name
    event_change_num,
    stim_num,
    baseline_stim,
    card1,                 \* [color, texture, R, texpos, moved]
    X,                     \* the phases square8bit is given, one per element
    freq,                  \* the frequency it is given
    gratingTex,            \* the array it returned
    calls,                 \* how often it was called
    \* ---- stimulus_classes: constructor arguments and object state
    phase,                 \* "idle" | "new" | "built" | "failed"
    cls,                   \* the class being constructed
    texture_array,         \* [dtype, ndim, empty]
    velocity,              \* FullFieldDrift: velocity
    velocities,            \* BinocularDrift: <<left, right>>
    texture_size,
    band_radius,
    texture,               \* self.texture: [state, image], state being
                           \* "none" | "created" | "setup"
    left_mask_array,       \* one row of the mask (every row is the same)
    right_mask_array,
    left_card,             \* [texture, texpos, moved]
    right_card,
    \* ---- stimulus_classes: FullFieldDriftExperiment and its test case
    stimulus_values,
    baseline_durations,
    experiment_structure,  \* [event_values, event_durations, event_change_times]
    current_event_num,
    texture_stage,         \* whether self.texture_stage was assigned
    ran                    \* the tasks already called in the current frame

engine_vars == <<time, returned, raised, tasks, title>>
texture_vars == <<X, freq, gratingTex, calls>>
myapp_vars  == <<stim_durations, inter_stimulus_times, event_change_times,
                 event_change_num, stim_num, baseline_stim, card1, texture_vars>>
stim_vars   == <<phase, cls, texture_array, velocity, velocities, texture_size,
                 band_radius, texture, left_mask_array, right_mask_array,
                 left_card, right_card>>
exp_vars    == <<stimulus_values, baseline_durations, experiment_structure,
                 current_event_num, texture_stage, ran>>
vars        == <<engine_vars, myapp_vars, stim_vars, exp_vars>>

myapp_vars_but_card == <<stim_durations, inter_stimulus_times,
                         event_change_times, event_change_num, stim_num,
                         baseline_stim, texture_vars>>

---------------------------------------------------------------------------
(* Bounds of the model. *)

MaxStim == 2        \* at most this many stimuli in the MyApp timeline
MaxDur  == 1        \* every duration is 0..MaxDur ticks

\* frame times offered to MyApp: up to one tick past the longest timeline
FrameTimes == 0 .. (2 * MaxStim * MaxDur + 1)

---------------------------------------------------------------------------
(* Python helpers. *)

\* seq[i] for a Python index i (0-based, negative counts from the end);
\* only used where the index is in range
PyIndex(seq, i) == IF i < 0 THEN seq[Len(seq) + i + 1] ELSE seq[i + 1]

\* whether seq[i] raises IndexError
PyIndexError(seq, i) == i >= Len(seq) \/ i < -Len(seq)

\* [y for x in zip_longest(a, b) for y in x if y is not None]
RECURSIVE ZipLongestFlat(_, _)
ZipLongestFlat(a, b) ==
    IF a = <<>> /\ b = <<>> THEN <<>>
    ELSE (IF a = <<>> THEN <<>> ELSE <<Head(a)>>)
         \o (IF b = <<>> THEN <<>> ELSE <<Head(b)>>)
         \o ZipLongestFlat(IF a = <<>> THEN <<>> ELSE Tail(a),
                           IF b = <<>> THEN <<>> ELSE Tail(b))

\* np.cumsum(s)
RECURSIVE CumSum(_)
CumSum(s) ==
    IF s = <<>> THEN <<>>
    ELSE LET front == CumSum(SubSeq(s, 1, Len(s) - 1))
         IN  Append(front, (IF front = <<>> THEN 0 ELSE front[Len(front)])
                           + s[Len(s)])

\* s[:-1]
AllButLast(s) == SubSeq(s, 1, Len(s) - 1)

---------------------------------------------------------------------------
(* drifting_grating_experiment: the derived event structure. *)

angles           == <<-20, 20, 45, 90>>
shift_velocities == <<-15, 5, 25, -10>>      \* hundredths of the source's values

\* lines 40-43
num_stim           == Len(stim_durations)
event_durations    == ZipLongestFlat(inter_stimulus_times, stim_durations)
derived_change_times_whole == CumSum(event_durations)
derived_change_times == AllButLast(CumSum(event_durations))
num_event_changes  == Len(event_change_times)

\* event_change_times[-1]
LastChangeTime == PyIndex(event_change_times, -1)

Durations == 0 .. MaxDur

InitMyAppParams ==
    /\ \E n \in 1 .. MaxStim :
          /\ stim_durations \in [1 .. n -> Durations]
          /\ inter_stimulus_times \in [1 .. (n + 1) -> Durations]
    /\ event_change_times = derived_change_times

\* no array
NoArray == [dtype |-> "none", ndim |-> 0, empty |-> FALSE]

\* self.texture before it is assigned, after Texture(name), and after
\* setup2dTexture and setRamImageAs(a, ...)
NoTexture      == [state |-> "none", image |-> NoArray]
NewTexture     == [state |-> "created", image |-> NoArray]
SetUpTexture(a) == [state |-> "setup", image |-> a]

\* a card that was not made yet, or carries nothing
NoCard == [texture |-> FALSE, texpos |-> 0, moved |-> FALSE]

ExperimentIdle ==
    /\ stimulus_values = <<>>
    /\ baseline_durations = <<>>
    /\ experiment_structure = [event_values |-> <<>>, event_durations |-> <<>>,
                               event_change_times |-> <<>>]
    /\ current_event_num = 0
    /\ texture_stage = FALSE
    /\ ran = {}

StimIdle ==
    /\ phase = "idle"
    /\ cls = "none"
    /\ texture_array = NoArray
    /\ velocity = 0
    /\ velocities = <<0, 0>>
    /\ texture_size = 0
    /\ band_radius = 0
    /\ texture = NoTexture
    /\ left_mask_array = <<>>
    /\ right_mask_array = <<>>
    /\ left_card = NoCard
    /\ right_card = NoCard
    /\ ExperimentIdle

\* square8bit was not called
TextureIdle ==
    /\ X = <<>>
    /\ freq = 0
    /\ gratingTex = <<>>
    /\ calls = 0

\* MyApp.__init__
InitMyApp ==
    /\ InitMyAppParams
    /\ TextureIdle
    /\ event_change_num = 0
    /\ stim_num = -1
    /\ baseline_stim = TRUE
    /\ title = "Full field: running"
    /\ card1 = [color |-> "bgcolor", texture |-> FALSE,
                R |-> PyIndex(angles, -1), texpos |-> 0, moved |-> FALSE]
    /\ tasks = {"moveTextureTask"}
    /\ time = 0
    /\ returned = "none"
    /\ raised = "none"
    /\ StimIdle

\* line 84: task.time >= event_change_times[self.event_change_num]
ChangeDueEarly(t, n) == t + 1 >= PyIndex(event_change_times, n)
ChangeDue(t, n) == t >= PyIndex(event_change_times, n)

\* lines 86, 97: the index after a due change
AdvancedNumCatchUp(t, n) ==
    Cardinality({i \in 1 .. num_event_changes : event_change_times[i] <= t})
AdvancedNum(t, n) == IF n < num_event_changes THEN n + 1 ELSE n

\* line 96: self.baseline_stim = not self.baseline_stim
ToggledStuck(b) == b
Toggled(b) == ~b

\* lines 87-95: the card after a due change, from the state before it
SwitchedCardKeepsTexture(card, b, s) ==
    IF b THEN [card EXCEPT !.color = "white", !.texture = TRUE,
                           !.R = PyIndex(angles, s + 1)]
         ELSE [card EXCEPT !.color = "bgcolor"]
SwitchedCard(card, b, s) ==
    IF b THEN [card EXCEPT !.color = "white", !.texture = TRUE,
                           !.R = PyIndex(angles, s + 1)]
         ELSE [card EXCEPT !.color = "bgcolor", !.texture = FALSE]

\* line 100: shiftMag
ShiftMagPrevious(t, s) == t * PyIndex(shift_velocities, s - 1)
ShiftMag(t, s) == t * PyIndex(shift_velocities, s)

\* lines 103-109: the value the task returns
Sentinel(t) == IF t <= LastChangeTime THEN "cont" ELSE "done"

\* MyApp.moveTextureTask, one frame callback at elapsed time t
moveTextureTask(t) ==
    /\ "moveTextureTask" \in tasks
    /\ raised = "none"
    /\ t >= time
    /\ time' = t
    /\ IF PyIndexError(event_change_times, event_change_num)
       THEN \* line 84 raises IndexError; the exception leaves the task manager
            /\ raised' = "IndexError"
            /\ returned' = "raise"
            /\ tasks' = {}
            /\ card1' = [card1 EXCEPT !.moved = FALSE]
            /\ UNCHANGED <<event_change_num, stim_num, baseline_stim, title>>
       ELSE LET due   == ChangeDue(t, event_change_num)
                     /\ event_change_num < num_event_changes
                num2  == IF due THEN AdvancedNum(t, event_change_num)
                                ELSE event_change_num
                stim2 == IF due /\ baseline_stim THEN stim_num + 1 ELSE stim_num
                base2 == IF due THEN Toggled(baseline_stim) ELSE baseline_stim
                card2 == IF due THEN SwitchedCard(card1, baseline_stim, stim_num)
                                ELSE card1
                ret   == Sentinel(t)
            IN  /\ event_change_num' = num2
                /\ stim_num' = stim2
                /\ baseline_stim' = base2
                /\ card1' = IF ~base2
                            THEN [card2 EXCEPT !.texpos = ShiftMag(t, stim2),
                                               !.moved = TRUE]
                            ELSE [card2 EXCEPT !.moved = FALSE]
                /\ returned' = ret
                /\ title' = IF ret = "done" THEN "Full field: done" ELSE title
                /\ tasks' = IF ret = "done" THEN tasks \ {"moveTextureTask"}
                                            ELSE tasks
                /\ raised' = "none"
    /\ UNCHANGED <<stim_durations, inter_stimulus_times, event_change_times,
                   texture_vars, stim_vars, exp_vars>>

MyAppFrame == \E t \in FrameTimes : moveTextureTask(t)

NextMyApp == MyAppFrame

SpecMyApp == InitMyApp /\ [][NextMyApp]_vars

\* number of change times that are <= t
ChangesUpTo(t) ==
    Cardinality({i \in 1 .. num_event_changes : event_change_times[i] <= t})

(* C1: over frames with non-decreasing elapsed time, event_change_num     *)
(* never decreases and one callback changes it by 0 or by exactly 1.      *)
C1_IndexMonotoneOneStep ==
    [][/\ time' >= time
       /\ event_change_num' - event_change_num \in {0, 1}]_vars

\* the whole timeline of a two-stimulus experiment has been walked
C1_Witness ==
    /\ num_stim = 2
    /\ event_change_num = num_event_changes
    /\ returned = "cont"

(* C2: an event change is never applied early: the index moves from n to  *)
(* n+1 only in a frame with time >= event_change_times[n], and in every   *)
(* state event_change_num <= the number of change times <= the latest     *)
(* frame time.                                                            *)
C2_NeverEarly ==
    /\ [](event_change_num <= ChangesUpTo(time))
    /\ [][event_change_num' # event_change_num
            => time' >= PyIndex(event_change_times, event_change_num)]_vars

\* a change applied in the very frame that reaches its change time
C2_Witness ==
    /\ event_change_num >= 1
    /\ time = PyIndex(event_change_times, event_change_num - 1)
    /\ time > 0
    /\ event_change_num = ChangesUpTo(time)

(* C3: baseline_stim is True exactly when event_change_num is even, and   *)
(* stim_num = (event_change_num + 1) div 2 - 1.                           *)
C3_ToggleParity ==
    /\ baseline_stim <=> (event_change_num % 2 = 0)
    /\ stim_num = ((event_change_num + 1) \div 2) - 1

\* the second stimulus is on
C3_Witness ==
    /\ event_change_num = 3
    /\ stim_num = 1
    /\ ~baseline_stim

(* C4: the task returns the continue sentinel exactly when the frame's    *)
(* time is <= the last change time and the stop sentinel exactly when it  *)
(* is greater; the title is 'Full field: running' until the stop sentinel *)
(* is returned and 'Full field: done' from that frame on, after which     *)
(* nothing changes any more.                                              *)
C4_SentinelByTime ==
    /\ returned # "none" =>
           /\ (returned = "cont") <=> (time <= LastChangeTime)
           /\ (returned = "done") <=> (time > LastChangeTime)
    /\ title = (IF returned = "done" THEN "Full field: done"
                                     ELSE "Full field: running")
    /\ returned = "done" => ~ ENABLED NextMyApp

(* C12: stimuli are shown in list order with valid indices: the k-th     *)
(* switch from baseline to stimulus (the change number 2k-1) sets stim_num *)
(* to k-1, attaches the texture and rotates the card to angles[k-1];       *)
(* while baseline_stim is False, 0 <= stim_num < num_stim and the frame    *)
(* set the texture offset to task.time * shift_velocities[stim_num]; a     *)
(* frame that ends in the baseline state leaves the offset alone.          *)
C12_StimuliInOrder ==
    /\ [](~baseline_stim =>
            /\ 0 <= stim_num /\ stim_num < num_stim
            /\ card1.color = "white"
            /\ card1.texture
            /\ card1.R = angles[stim_num + 1]
            /\ card1.moved
            /\ card1.texpos = time * shift_velocities[stim_num + 1])
    /\ [](baseline_stim => ~card1.moved)
    /\ [][(baseline_stim /\ ~baseline_stim') =>
            /\ event_change_num' = event_change_num + 1
            /\ event_change_num' % 2 = 1
            /\ stim_num' = (event_change_num' + 1) \div 2 - 1
            /\ stim_num' = stim_num + 1]_vars
    /\ [][baseline_stim' => card1'.texpos = card1.texpos]_vars

\* the second stimulus drifting, three ticks in
C12_Witness ==
    /\ ~baseline_stim
    /\ stim_num = 1
    /\ time = 3
    /\ card1.R = 20
    /\ card1.texpos = 15
    /\ card1.moved

(* C13: with n stimulus durations and n+1 inter-stimulus times,           *)
(* event_durations interleaves them baseline, stimulus, ..., baseline      *)
(* (2n+1 entries); event_change_times has 2n entries (num_event_changes =  *)
(* 2*num_stim, the module's assertions), each the running sum of the       *)
(* durations up to it, so it is non-decreasing; its even positions         *)
(* (0-based) are the stimulus onsets, its odd positions the offsets, and   *)
(* the final inter-stimulus time is not part of it.                        *)
C13_DerivedEventStructure ==
    LET n == Len(stim_durations)
    IN  /\ Len(inter_stimulus_times) = num_stim + 1
        /\ num_event_changes = num_stim * 2
        /\ Len(event_durations) = 2 * n + 1
        /\ \A i \in 1 .. (n + 1) :
               event_durations[2 * i - 1] = inter_stimulus_times[i]
        /\ \A i \in 1 .. n : event_durations[2 * i] = stim_durations[i]
        /\ Len(event_change_times) = 2 * n
        /\ \A k \in 1 .. (2 * n) :
               event_change_times[k] =
                   (IF k = 1 THEN 0 ELSE event_change_times[k - 1])
                   + event_durations[k]
        /\ \A k \in 2 .. (2 * n) :
               event_change_times[k - 1] <= event_change_times[k]
        /\ \A i \in 1 .. n :
               /\ event_change_times[2 * i - 1] =
                      (IF i = 1 THEN 0 ELSE event_change_times[2 * i - 2])
                      + inter_stimulus_times[i]
               /\ event_change_times[2 * i] =
                      event_change_times[2 * i - 1] + stim_durations[i]

\* two stimuli of one tick, the second following the first at once, and
\* the task has walked the four change times
C13_Witness ==
    /\ event_change_num = 4
    /\ stim_durations = <<1, 1>>
    /\ inter_stimulus_times = <<1, 0, 1>>
    /\ event_durations = <<1, 1, 0, 1, 1>>
    /\ event_change_times = <<1, 2, 2, 3>>

(* C17: moveTextureTask never reads event_change_times out of bounds:     *)
(* whenever the task can still be invoked event_change_num <               *)
(* num_event_changes, so line 84 never raises IndexError, also after a     *)
(* frame at exactly the last change time.                                  *)
C17_IndexInBounds ==
    /\ raised # "IndexError"
    /\ "moveTextureTask" \in tasks => event_change_num < num_event_changes

---------------------------------------------------------------------------
(* stimulus_classes: FullFieldDrift, FullFieldStatic, BinocularDrift,      *)
(* BinocularStatic.  Init is the state before the constructor runs, with   *)
(* the constructor's arguments chosen; the constructor is one action.      *)

MaxNdim      == 4     \* texture arrays have 0..MaxNdim dimensions
MaxVel       == 1     \* velocities are -MaxVel..MaxVel
MaxTexSize   == 4     \* texture_size is 1..MaxTexSize
MaxBand      == 3     \* band_radius is 0..MaxBand
MaxFrameTime == 3     \* frame times of the drifting stimuli are 0..MaxFrameTime

DTypes == {"uint8", "uint16", "int16", "float64"}
Velocities == (-MaxVel) .. MaxVel

\* the arrays numpy can build: a 0-d array always holds one element
TextureArrays ==
    {a \in [dtype : DTypes, ndim : 0 .. MaxNdim, empty : BOOLEAN] :
        a.empty => a.ndim >= 1}

FullFieldClasses == {"FullFieldDrift", "FullFieldStatic"}
BinocularClasses == {"BinocularDrift", "BinocularStatic"}

MyAppIdle ==
    /\ stim_durations = <<>>
    /\ inter_stimulus_times = <<>>
    /\ event_change_times = <<>>
    /\ event_change_num = 0
    /\ stim_num = -1
    /\ baseline_stim = TRUE
    /\ card1 = [color |-> "default", texture |-> FALSE, R |-> 0,
                texpos |-> 0, moved |-> FALSE]
    /\ TextureIdle

EngineIdle ==
    /\ time = 0
    /\ returned = "none"
    /\ raised = "none"
    /\ tasks = {}
    /\ title = "Panda"

ObjectIdle ==
    /\ phase = "new"
    /\ texture = NoTexture
    /\ left_mask_array = <<>>
    /\ right_mask_array = <<>>
    /\ left_card = NoCard
    /\ right_card = NoCard

InitFullField ==
    /\ cls \in FullFieldClasses
    /\ texture_array \in TextureArrays
    /\ velocity \in Velocities
    /\ velocities = <<0, 0>>
    /\ texture_size = 0
    /\ band_radius = 0
    /\ ObjectIdle /\ EngineIdle /\ MyAppIdle /\ ExperimentIdle

InitBinocular ==
    /\ cls \in BinocularClasses
    /\ texture_array \in TextureArrays
    /\ velocity = 0
    /\ velocities \in Velocities \X Velocities
    /\ texture_size \in 1 .. MaxTexSize
    /\ band_radius \in 0 .. MaxBand
    /\ ObjectIdle /\ EngineIdle /\ MyAppIdle /\ ExperimentIdle

\* lines 75-78 (189-192, 410-413): the component type of an element type;
\* "unset" when no branch assigns it
ComponentTypeLenient(dtype) ==
    IF dtype = "uint16" THEN "T_unsigned_short" ELSE "T_unsigned_byte"
ComponentType(dtype) ==
    IF dtype = "uint8" THEN "T_unsigned_byte"
    ELSE IF dtype = "uint16" THEN "T_unsigned_short"
    ELSE "unset"

\* lines 81-92 (195-206): the texture format of a number of dimensions
TextureFormat(ndim) ==
    IF ndim = 2 THEN "F_luminance"
    ELSE IF ndim = 3 THEN "F_rgb8"
    ELSE "ValueError"

\* How far FullFieldDrift.__init__ and BinocularDrift.__init__ get with an
\* array: type(texture_array.flat[0]) raises IndexError on an array without
\* elements (lines 60, 165); setup2dTexture reads self.texture_component_type,
\* which raises AttributeError when no branch set it (lines 83, 88, 197, 202);
\* the else branch raises ValueError (lines 92, 206)
SetupOutcome(a) ==
    IF a.empty THEN "IndexError"
    ELSE IF TextureFormat(a.ndim) = "ValueError" THEN "ValueError"
    ELSE IF ComponentType(a.dtype) = "unset" THEN "AttributeError"
    ELSE "ok"

\* line 106: if self.velocity != 0
ShouldMove(v) == v # 0

\* line 112 (286, 287, 293, 298): new_position = -task.time*velocity
NewPositionForward(t, v) == t * v
NewPosition(t, v) == -(t * v)

\* FullFieldDrift.__init__(texture_array, angle, v, ...), the title it ends
\* with given by the class that called it
FullFieldDriftInit(v, final_title) ==
    LET outcome == SetupOutcome(texture_array)
    IN  /\ phase = "new"
        /\ velocity' = v
        /\ IF outcome = "IndexError"
           THEN UNCHANGED <<title, texture>>
           ELSE /\ title' = IF outcome = "ok" THEN final_title
                                              ELSE "FullFieldDrift"
                /\ texture' = IF outcome = "ok" THEN SetUpTexture(texture_array)
                                                ELSE NewTexture
        /\ raised' = IF outcome = "ok" THEN "none" ELSE outcome
        /\ phase' = IF outcome = "ok" THEN "built" ELSE "failed"
        /\ card1' = IF outcome = "ok"
                    THEN [card1 EXCEPT !.texture = TRUE] ELSE card1
        /\ tasks' = IF outcome = "ok" /\ ShouldMove(v)
                    THEN {"moveTextureTask"} ELSE {}
        /\ UNCHANGED <<time, returned, myapp_vars_but_card, cls, texture_array,
                       velocities, texture_size, band_radius,
                       left_mask_array, right_mask_array, left_card, right_card,
                       exp_vars>>

\* FullFieldDrift(texture_array, angle, velocity, ...)
FullFieldDrift_init ==
    /\ cls = "FullFieldDrift"
    /\ FullFieldDriftInit(velocity, "FullFieldDrift")

\* lines 127-128: the velocity FullFieldStatic passes to its parent
StaticVelocityKept(v) == v
StaticVelocity(v) == 0

\* FullFieldStatic(texture_array, angle, ...)
FullFieldStatic_init ==
    /\ cls = "FullFieldStatic"
    /\ FullFieldDriftInit(StaticVelocity(velocity), "FullFieldStatic")

\* FullFieldDrift.moveTextureTask
FullFieldDrift_moveTextureTask(t) ==
    /\ cls \in FullFieldClasses
    /\ "moveTextureTask" \in tasks
    /\ raised = "none"
    /\ t >= time
    /\ time' = t
    /\ card1' = [card1 EXCEPT !.texpos = NewPosition(t, velocity),
                              !.moved = TRUE]
    /\ returned' = "cont"
    /\ UNCHANGED <<raised, tasks, title, myapp_vars_but_card, stim_vars,
                   exp_vars>>

StimFrameTimes == 0 .. MaxFrameTime

FullFieldFrame == \E t \in StimFrameTimes : FullFieldDrift_moveTextureTask(t)

---------------------------------------------------------------------------
(* BinocularDrift and BinocularStatic. *)

\* The bound a Python slice uses for index i on an axis of length n
SliceBound(i, n) ==
    IF i < 0 THEN (IF i + n < 0 THEN 0 ELSE i + n)
             ELSE (IF i > n THEN n ELSE i)

\* line 181: the first column the left mask darkens
LeftMaskStartSwapped(ts, br) == ts \div 2 + br
LeftMaskStart(ts, br) == ts \div 2 - br

\* line 183: the column the right mask darkens up to (exclusive)
RightMaskStop(ts, br) == ts \div 2 + br

\* lines 180-181: a row of left_mask_array; column c (0-based) is entry c+1
LeftMaskRow(ts, br) ==
    [c \in 1 .. ts |->
        IF c - 1 >= SliceBound(LeftMaskStart(ts, br), ts) THEN 0 ELSE 255]

\* lines 182-183: a row of right_mask_array
RightMaskRow(ts, br) ==
    [c \in 1 .. ts |->
        IF c - 1 < SliceBound(RightMaskStop(ts, br), ts) THEN 0 ELSE 255]

\* lines 266-274: the task the constructor registers
BinocularTasksSwapped(lv, rv) ==
    IF lv # 0 /\ rv # 0 THEN {"textures_update"}
    ELSE IF lv # 0 /\ rv = 0 THEN {"right_texture_update"}
    ELSE IF lv = 0 /\ rv # 0 THEN {"left_texture_update"}
    ELSE {}
BinocularTasks(lv, rv) ==
    IF lv # 0 /\ rv # 0 THEN {"textures_update"}
    ELSE IF lv # 0 /\ rv = 0 THEN {"left_texture_update"}
    ELSE IF lv = 0 /\ rv # 0 THEN {"right_texture_update"}
    ELSE {}

\* BinocularDrift.__init__(texture_array, ..., vs, band_radius, ...)
BinocularDriftInit(vs, final_title) ==
    LET outcome == SetupOutcome(texture_array)
    IN  /\ phase = "new"
        /\ velocities' = vs
        /\ IF outcome = "IndexError"
           THEN UNCHANGED <<title, texture, left_mask_array, right_mask_array>>
           ELSE /\ title' = IF outcome = "ok" THEN final_title
                                              ELSE "BinocularDrift"
                /\ left_mask_array' = LeftMaskRow(texture_size, band_radius)
                /\ right_mask_array' = RightMaskRow(texture_size, band_radius)
                /\ texture' = IF outcome = "ok" THEN SetUpTexture(texture_array)
                                                ELSE NewTexture
        /\ raised' = IF outcome = "ok" THEN "none" ELSE outcome
        /\ phase' = IF outcome = "ok" THEN "built" ELSE "failed"
        /\ left_card' = IF outcome = "ok"
                        THEN [left_card EXCEPT !.texture = TRUE] ELSE left_card
        /\ right_card' = IF outcome = "ok"
                         THEN [right_card EXCEPT !.texture = TRUE] ELSE right_card
        /\ tasks' = IF outcome = "ok" THEN BinocularTasks(vs[1], vs[2]) ELSE {}
        /\ UNCHANGED <<time, returned, myapp_vars, cls, texture_array,
                       velocity, texture_size, band_radius, exp_vars>>

\* BinocularDrift(texture_array, ..., velocities, ...)
BinocularDrift_init ==
    /\ cls = "BinocularDrift"
    /\ BinocularDriftInit(velocities, "BinocularDrift")

\* lines 338-339: the velocities BinocularStatic passes to its parent
StaticVelocities(vs) == <<0, 0>>

\* BinocularStatic(texture_array, ...)
BinocularStatic_init ==
    /\ cls = "BinocularStatic"
    /\ BinocularDriftInit(StaticVelocities(velocities), "BinocularStatic")

\* the task manager calls the task `name` of a binocular stimulus at
\* elapsed time t
BinocularCalled(name, t) ==
    /\ cls \in BinocularClasses
    /\ name \in tasks
    /\ raised = "none"
    /\ t >= time
    /\ time' = t
    /\ UNCHANGED <<raised, tasks, title, myapp_vars, phase, cls, texture_array,
                   velocity, velocities, texture_size, band_radius, texture,
                   left_mask_array, right_mask_array, exp_vars>>

\* card.setTexPos(stage, pos, 0, 0)
SetTexPos(card, pos) == [card EXCEPT !.texpos = pos, !.moved = TRUE]

\* a card the callback leaves alone
UntouchedRepainted(card) == [card EXCEPT !.color = "white", !.moved = FALSE]
Untouched(card) == [card EXCEPT !.moved = FALSE]

\* BinocularDrift.textures_update
textures_update(t) ==
    /\ BinocularCalled("textures_update", t)
    /\ left_card' = SetTexPos(left_card, NewPosition(t, velocities[1]))
    /\ right_card' = SetTexPos(right_card, NewPosition(t, velocities[2]))
    /\ returned' = "cont"

\* BinocularDrift.left_texture_update
left_texture_update(t) ==
    /\ BinocularCalled("left_texture_update", t)
    /\ left_card' = SetTexPos(left_card, NewPosition(t, velocities[1]))
    /\ right_card' = Untouched(right_card)
    /\ returned' = "cont"

\* BinocularDrift.right_texture_update
right_texture_update(t) ==
    /\ BinocularCalled("right_texture_update", t)
    /\ left_card' = Untouched(left_card)
    /\ right_card' = SetTexPos(right_card, NewPosition(t, velocities[2]))
    /\ returned' = "cont"

BinocularFrame ==
    \E t \in StimFrameTimes :
        \/ textures_update(t)
        \/ left_texture_update(t)
        \/ right_texture_update(t)

---------------------------------------------------------------------------
(* FullFieldDriftExperiment, run as test case 5 of the module's __main__   *)
(* sets it up: the names event_change_times, texture_function and          *)
(* texture_size that the two tasks read are the module level ones of the   *)
(* test case, and event_change_times is the array that is also passed in   *)
(* experiment_structure.  The constructor is given the arguments its       *)
(* signature takes (the test case also passes save_path, which it does     *)
(* not).  texture_function lives outside these sources: what it returns    *)
(* is any array.                                                           *)

\* lines 556-558: stim_params, velocities in hundredths
stim_params == << [angle |-> -20, velocity |-> 10],
                  [angle |->  20, velocity |-> -8],
                  [angle |->  90, velocity |->  5] >>

\* line 560: stimulus_values of the test case
test_stimulus_values == <<2, 1, 0, 1>>

\* line 568: all_events, baseline as -1
all_events ==
    ZipLongestFlat([i \in 1 .. Len(baseline_durations) |-> -1], stimulus_values)

\* line 570
exp_event_durations == ZipLongestFlat(baseline_durations, stim_durations)

\* line 572: no [:-1] here, the end of the final baseline is a change time
exp_event_change_times == CumSum(exp_event_durations)

\* lines 353, 354, 357: what the constructor keeps of experiment_structure
events == experiment_structure.event_values
self_event_change_times == experiment_structure.event_change_times
num_events == Len(events)

\* event_change_times[-1] of lines 392 and 444, the module level array
ExpLastChangeTime == PyIndex(event_change_times, -1)

ExpFrameTimes == 0 .. ((2 * MaxStim + 1) * MaxDur + 1)

\* The experiments of the model: the first n stimuli of the test case, every
\* stimulus lasting ds ticks and every baseline db ticks
InitExperiment ==
    /\ cls = "FullFieldDriftExperiment"
    /\ \E n \in 1 .. MaxStim : \E ds \in Durations : \E db \in Durations :
          /\ stimulus_values = SubSeq(test_stimulus_values, 1, n)
          /\ stim_durations = [i \in 1 .. n |-> ds]
          /\ baseline_durations = [i \in 1 .. (n + 1) |-> db]
    /\ experiment_structure = [event_values |-> all_events,
                               event_durations |-> exp_event_durations,
                               event_change_times |-> exp_event_change_times]
    /\ event_change_times = exp_event_change_times
    /\ inter_stimulus_times = <<>>
    /\ event_change_num = 0
    /\ stim_num = -1
    /\ baseline_stim = TRUE
    /\ card1 = [color |-> "default", texture |-> FALSE, R |-> 0,
                texpos |-> 0, moved |-> FALSE]
    /\ TextureIdle
    /\ texture_array = NoArray
    /\ velocity = 0
    /\ velocities = <<0, 0>>
    /\ texture_size = 0
    /\ band_radius = 0
    /\ current_event_num = 0
    /\ texture_stage = FALSE
    /\ ran = {}
    /\ ObjectIdle /\ EngineIdle

\* FullFieldDriftExperiment.__init__
FullFieldDriftExperiment_init ==
    /\ cls = "FullFieldDriftExperiment"
    /\ phase = "new"
    /\ phase' = "built"
    /\ current_event_num' = 0
    /\ title' = "FFDE Initializing"
    /\ card1' = [card1 EXCEPT !.color = "bgcolor"]
    /\ tasks' = {"move_texture", "set_texture"}
    /\ UNCHANGED <<time, returned, raised, myapp_vars_but_card, cls,
                   texture_array, velocity, velocities, texture_size,
                   band_radius, texture, left_mask_array, right_mask_array,
                   left_card, right_card, stimulus_values, baseline_durations,
                   experiment_structure, texture_stage, ran>>

\* a frame is open while a task of it is still to be called
FrameOpen == ran # {} /\ (tasks \ ran) # {}

\* The task manager calls the task `name` at elapsed time t: the tasks of a
\* frame see the same time, in either order, and a new frame starts only
\* when every task of the current one was called
ExperimentCalled(name, t) ==
    /\ cls = "FullFieldDriftExperiment"
    /\ name \in tasks
    /\ raised = "none"
    /\ IF FrameOpen THEN name \notin ran /\ t = time ELSE t >= time
    /\ time' = t
    /\ ran' = IF FrameOpen THEN ran \cup {name} ELSE {name}
    /\ UNCHANGED <<myapp_vars_but_card, phase, cls, velocity, velocities,
                   texture_size, band_radius, left_mask_array,
                   right_mask_array, left_card, right_card, stimulus_values,
                   baseline_durations, experiment_structure>>

\* the task raises exception e: it leaves the task manager's loop
TaskRaises(e) ==
    /\ raised' = e
    /\ returned' = "raise"
    /\ tasks' = {}

\* the task returns Task.cont or Task.done
TaskReturns(name, sentinel) ==
    /\ raised' = "none"
    /\ returned' = sentinel
    /\ tasks' = IF sentinel = "done" THEN tasks \ {name} ELSE tasks

\* line 393: task.time >= self.event_change_times[self.current_event_num]
EventChangeDueAlways(t, n) == TRUE
EventChangeDue(t, n) == t >= PyIndex(self_event_change_times, n)

\* lines 385-387: self.current_stim_params for the event value ind
StimParamsFirst(ind) == stim_params[1]
StimParamsOf(ind) == PyIndex(stim_params, ind)

\* line 445: if self.current_event_ind != -1
MovesTextureAlways(ind) == TRUE
MovesTexture(ind) == ind # -1

\* lines 403-425: how far set_texture_task gets with a generated array
GeneratedOutcome(a) ==
    IF a.empty THEN "IndexError"
    ELSE IF ComponentType(a.dtype) = "unset" THEN "ValueError"
    ELSE IF TextureFormat(a.ndim) = "ValueError" THEN "ValueError"
    ELSE "ok"

\* "FFDE {0}: {1}".format(num, what)
FFDETitle(num, what) == "FFDE " \o ToString(num) \o ": " \o what

\* FullFieldDriftExperiment.set_texture_task; a is the array that
\* texture_function returns when it is called
set_texture_task(t, a) ==
    /\ ExperimentCalled("set_texture", t)
    /\ IF t > ExpLastChangeTime
       THEN /\ TaskReturns("set_texture", "done")
            /\ card1' = Untouched(card1)
            /\ UNCHANGED <<current_event_num, title, texture, texture_array,
                           texture_stage>>
       ELSE IF PyIndexError(self_event_change_times, current_event_num)
       THEN \* line 393
            /\ TaskRaises("IndexError")
            /\ card1' = Untouched(card1)
            /\ UNCHANGED <<current_event_num, title, texture, texture_array,
                           texture_stage>>
       ELSE IF ~EventChangeDue(t, current_event_num)
       THEN /\ TaskReturns("set_texture", "cont")
            /\ card1' = Untouched(card1)
            /\ UNCHANGED <<current_event_num, title, texture, texture_array,
                           texture_stage>>
       ELSE LET num == current_event_num + 1
            IN  /\ current_event_num' = num
                /\ IF PyIndexError(events, num)
                   THEN \* line 395, self.events[self.current_event_num]
                        /\ TaskRaises("IndexError")
                        /\ card1' = Untouched(card1)
                        /\ UNCHANGED <<title, texture, texture_array,
                                       texture_stage>>
                   ELSE IF PyIndex(events, num) = -1
                   THEN \* lines 396-398
                        IF texture_stage
                        THEN /\ TaskReturns("set_texture", "cont")
                             /\ card1' = [card1 EXCEPT !.color = "bgcolor",
                                                       !.texture = FALSE,
                                                       !.moved = FALSE]
                             /\ title' = FFDETitle(num, "baseline")
                             /\ UNCHANGED <<texture, texture_array,
                                            texture_stage>>
                        ELSE \* line 397 reads self.texture_stage
                             /\ TaskRaises("AttributeError")
                             /\ card1' = [card1 EXCEPT !.color = "bgcolor",
                                                       !.moved = FALSE]
                             /\ UNCHANGED <<title, texture, texture_array,
                                            texture_stage>>
                   ELSE \* lines 401-436
                        LET ind     == PyIndex(events, num)
                            outcome == GeneratedOutcome(a)
                        IN  /\ texture_array' = a
                            /\ IF outcome = "ok"
                               THEN /\ TaskReturns("set_texture", "cont")
                                    /\ texture' = SetUpTexture(a)
                                    /\ texture_stage' = TRUE
                                    /\ card1' =
                                         [card1 EXCEPT
                                            !.color = "white",
                                            !.texture = TRUE,
                                            !.R = StimParamsOf(ind).angle,
                                            !.moved = FALSE]
                                    /\ title' = FFDETitle(num, ToString(ind))
                               ELSE /\ TaskRaises(outcome)
                                    /\ texture' = IF outcome = "IndexError"
                                                  THEN texture ELSE NewTexture
                                    /\ card1' = Untouched(card1)
                                    /\ UNCHANGED <<title, texture_stage>>

\* FullFieldDriftExperiment.move_texture_task
move_texture_task(t) ==
    /\ ExperimentCalled("move_texture", t)
    /\ UNCHANGED <<current_event_num, texture, texture_array, texture_stage>>
    /\ IF t > ExpLastChangeTime
       THEN /\ TaskReturns("move_texture", "done")
            /\ title' = "FFDE Done"
            /\ card1' = Untouched(card1)
       ELSE IF PyIndexError(events, current_event_num)
       THEN \* line 445, self.events[self.current_event_num]
            /\ TaskRaises("IndexError")
            /\ card1' = Untouched(card1)
            /\ UNCHANGED title
       ELSE IF ~MovesTexture(PyIndex(events, current_event_num))
       THEN /\ TaskReturns("move_texture", "cont")
            /\ card1' = Untouched(card1)
            /\ UNCHANGED title
       ELSE IF texture_stage
       THEN /\ TaskReturns("move_texture", "cont")
            /\ card1' = SetTexPos(card1,
                  NewPosition(t, StimParamsOf(
                                   PyIndex(events, current_event_num)).velocity))
            /\ UNCHANGED title
       ELSE \* line 447 reads self.texture_stage
            /\ TaskRaises("AttributeError")
            /\ card1' = Untouched(card1)
            /\ UNCHANGED title

\* whether set_texture_task, called at time t, calls texture_function
\* (line 402)
CallsTextureFunction(t) ==
    /\ cls = "FullFieldDriftExperiment"
    /\ t <= ExpLastChangeTime
    /\ ~PyIndexError(self_event_change_times, current_event_num)
    /\ EventChangeDue(t, current_event_num)
    /\ ~PyIndexError(events, current_event_num + 1)
    /\ PyIndex(events, current_event_num + 1) # -1

ExperimentSetTexture ==
    \E t \in ExpFrameTimes :
        \E a \in (IF CallsTextureFunction(t) THEN TextureArrays
                                             ELSE {texture_array}) :
            set_texture_task(t, a)

ExperimentMoveTexture == \E t \in ExpFrameTimes : move_texture_task(t)

InitStimulus == InitFullField \/ InitBinocular \/ InitExperiment

NextStimulus ==
    \/ FullFieldDrift_init
    \/ FullFieldStatic_init
    \/ FullFieldFrame
    \/ BinocularDrift_init
    \/ BinocularStatic_init
    \/ BinocularFrame
    \/ FullFieldDriftExperiment_init
    \/ ExperimentSetTexture
    \/ ExperimentMoveTexture

SpecStimulus == InitStimulus /\ [][NextStimulus]_vars

---------------------------------------------------------------------------
(* Properties of the stimulus classes, checked under SpecStimulus. *)

ConstructorClasses == FullFieldClasses \cup BinocularClasses

\* the constructor of a stimulus class has run
Constructed == cls \in ConstructorClasses /\ phase # "new"

\* no card carries the stimulus texture
NoTextureOnCard ==
    /\ ~card1.texture
    /\ ~left_card.texture
    /\ ~right_card.texture

(* C5: a texture array with neither 2 nor 3 dimensions makes the           *)
(* constructor raise ValueError, whatever its element type, with no        *)
(* texture on a card and no task registered.                               *)
C5_BadNdimValueError ==
    (Constructed /\ texture_array.ndim \notin {2, 3}) =>
        /\ raised = "ValueError"
        /\ NoTextureOnCard
        /\ tasks = {}

(* What the constructors do with such an array: ValueError when it holds   *)
(* an element, IndexError (from texture_array.flat[0]) when it holds none; *)
(* either way no texture is on a card and no task is registered.           *)
BadNdimRaises ==
    (Constructed /\ texture_array.ndim \notin {2, 3}) =>
        /\ raised = (IF texture_array.empty THEN "IndexError" ELSE "ValueError")
        /\ phase = "failed"
        /\ NoTextureOnCard
        /\ tasks = {}

\* an element type that is neither uint8 nor uint16
UnsupportedDType(a) == a.dtype \in DTypes \ {"uint8", "uint16"}

(* C6: wherever a texture array is accepted (the two constructors and      *)
(* set_texture_task), an array whose element type is neither uint8 nor     *)
(* uint16 makes the code raise before the texture is set up or put on a    *)
(* card.                                                                   *)
C6_BadDtypeRejected ==
    /\ (Constructed /\ UnsupportedDType(texture_array)) =>
           /\ raised # "none"
           /\ phase = "failed"
           /\ texture.state # "setup"
           /\ NoTextureOnCard
           /\ tasks = {}
    /\ (cls = "FullFieldDriftExperiment" /\ UnsupportedDType(texture_array)) =>
           /\ raised # "none"
           /\ texture.image # texture_array
           /\ NoTextureOnCard
    /\ ~UnsupportedDType(texture.image)

\* set_texture_task rejects the float texture generated for the second
\* stimulus
C6_Witness ==
    /\ cls = "FullFieldDriftExperiment"
    /\ current_event_num = 3
    /\ texture_array = [dtype |-> "float64", ndim |-> 2, empty |-> FALSE]
    /\ raised = "ValueError"
    /\ texture = NewTexture

(* C7: FullFieldDrift.moveTextureTask returns the continue sentinel on     *)
(* every call and stays registered, and after each call the texture offset *)
(* is -task.time * velocity, whatever the frames before it were.           *)
C7_DriftForever ==
    (cls \in FullFieldClasses /\ returned # "none") =>
        /\ returned = "cont"
        /\ "moveTextureTask" \in tasks
        /\ card1.moved
        /\ card1.texpos = -(time * velocity)

\* a texture drifting with velocity -1, two ticks in
C7_Witness ==
    /\ cls = "FullFieldDrift"
    /\ velocity = -1
    /\ time = 2
    /\ returned = "cont"
    /\ card1.texpos = 2

(* C8: after a completed construction FullFieldDrift has its move task     *)
(* registered exactly when velocity != 0; FullFieldStatic and              *)
(* BinocularStatic have no task, so no callback ever runs and the texture  *)
(* offsets stay as constructed, and the title is the class's own name.     *)
C8_StaticNoTask ==
    phase = "built" =>
        /\ cls = "FullFieldDrift" =>
               (("moveTextureTask" \in tasks) <=> (velocity # 0))
        /\ cls \in {"FullFieldStatic", "BinocularStatic"} =>
               /\ tasks = {}
               /\ title = cls
               /\ returned = "none"
               /\ card1.texpos = 0 /\ ~card1.moved
               /\ left_card.texpos = 0 /\ ~left_card.moved
               /\ right_card.texpos = 0 /\ ~right_card.moved

\* a FullFieldStatic built from a valid texture
C8_Witness ==
    /\ cls = "FullFieldStatic"
    /\ phase = "built"
    /\ card1.texture
    /\ title = "FullFieldStatic"

(* C9: BinocularDrift registers at most one task, chosen by which          *)
(* velocities are non-zero; no callback touches the offset of a side whose *)
(* velocity is 0, every callback sets a moving side's offset to            *)
(* -task.time * that side's velocity and returns the continue sentinel.    *)
C9_BinocularTask ==
    (cls \in BinocularClasses /\ phase = "built") =>
        /\ Cardinality(tasks) <= 1
        /\ (velocities[1] # 0 /\ velocities[2] # 0) => tasks = {"textures_update"}
        /\ (velocities[1] # 0 /\ velocities[2] = 0) => tasks = {"left_texture_update"}
        /\ (velocities[1] = 0 /\ velocities[2] # 0) => tasks = {"right_texture_update"}
        /\ (velocities[1] = 0 /\ velocities[2] = 0) => tasks = {}
        /\ velocities[1] = 0 => (~left_card.moved /\ left_card.texpos = 0)
        /\ velocities[2] = 0 => (~right_card.moved /\ right_card.texpos = 0)
        /\ returned # "none" =>
               /\ returned = "cont"
               /\ velocities[1] # 0 =>
                      /\ left_card.moved
                      /\ left_card.texpos = -(time * velocities[1])
               /\ velocities[2] # 0 =>
                      /\ right_card.moved
                      /\ right_card.texpos = -(time * velocities[2])

\* only the left texture moves
C9_Witness ==
    /\ cls = "BinocularDrift"
    /\ velocities = <<1, 0>>
    /\ time = 2
    /\ returned = "cont"
    /\ left_card.texpos = -2
    /\ ~right_card.moved

\* the masks were made (lines 180-183 ran)
MasksMade == cls \in BinocularClasses /\ phase # "new" /\ ~texture_array.empty

Columns == 0 .. (texture_size - 1)

(* C10: for 0 <= band_radius <= texture_size // 2 the left mask is 255     *)
(* exactly in the columns c < texture_size//2 - band_radius, the right     *)
(* mask exactly in the columns c >= texture_size//2 + band_radius, so no   *)
(* column is lit in both and the columns dark in both are the 2*band_radius*)
(* columns around column texture_size//2.                                  *)
C10_MasksSplit ==
    (MasksMade /\ band_radius <= texture_size \div 2) =>
        LET half == texture_size \div 2
            dark == {c \in Columns : left_mask_array[c + 1] = 0
                                     /\ right_mask_array[c + 1] = 0}
        IN  /\ Len(left_mask_array) = texture_size
            /\ Len(right_mask_array) = texture_size
            /\ \A c \in Columns :
                  /\ left_mask_array[c + 1] =
                         (IF c < half - band_radius THEN 255 ELSE 0)
                  /\ right_mask_array[c + 1] =
                         (IF c >= half + band_radius THEN 255 ELSE 0)
                  /\ ~(left_mask_array[c + 1] = 255
                       /\ right_mask_array[c + 1] = 255)
            /\ dark = {c \in Columns : half - band_radius <= c
                                       /\ c < half + band_radius}
            /\ Cardinality(dark) = 2 * band_radius

\* a texture of 4 columns with a band of half-width 1
C10_Witness ==
    /\ MasksMade
    /\ texture_size = 4
    /\ band_radius = 1
    /\ left_mask_array = <<255, 0, 0, 0>>
    /\ right_mask_array = <<0, 0, 0, 255>>

---------------------------------------------------------------------------
(* drifting_grating_experiment: texture generation.  A phase is an integer *)
(* number of Period-ths of a turn, so X*freq stays an integer; an array is *)
(* the sequence of its elements, its shape the sequence's length.          *)

Period   == 4      \* a turn (2*pi) is Period phase units
MaxLen   == 3      \* arrays given to square8bit hold 0..MaxLen elements
MaxFreq  == 1      \* frequencies are -MaxFreq..MaxFreq
MaxCalls == 2      \* square8bit is called at most this often

Phases      == (-1) .. Period
Frequencies == (-MaxFreq) .. MaxFreq
PhaseArrays == UNION {[1 .. n -> Phases] : n \in 0 .. MaxLen}

\* scipy.signal.square(t) for one element, duty 0.5: 1 while t mod 2*pi is
\* below pi, -1 from pi on
Square(t) == IF 2 * (t % Period) < Period THEN 1 ELSE -1

\* lines 28-29
squareWave(Xa, f) == [i \in DOMAIN Xa |-> Square(Xa[i] * f)]

\* np.asarray(a, dtype = np.uint8) of whole numbers: the low eight bits
AsUint8(a) == [i \in DOMAIN a |-> a[i] % 256]

\* lines 30-33; (square_float+1)*127.5 is ((square_float+1)*255)/2
square8bitCounting(Xa, f) ==
    AsUint8([i \in DOMAIN Xa |->
                ((squareWave(Xa, f)[i] + 1) * 255) \div 2 + calls])
square8bit(Xa, f) ==
    LET square_float == squareWave(Xa, f)
        square_pos   == [i \in DOMAIN square_float |->
                            ((square_float[i] + 1) * 255) \div 2]
    IN  AsUint8(square_pos)

InitTexture ==
    /\ X \in PhaseArrays
    /\ freq \in Frequencies
    /\ gratingTex = <<>>
    /\ calls = 0
    /\ stim_durations = <<>>
    /\ inter_stimulus_times = <<>>
    /\ event_change_times = <<>>
    /\ event_change_num = 0
    /\ stim_num = -1
    /\ baseline_stim = TRUE
    /\ card1 = [color |-> "default", texture |-> FALSE, R |-> 0,
                texpos |-> 0, moved |-> FALSE]
    /\ EngineIdle
    /\ StimIdle

\* gratingTex = square8bit(X, freq), as line 37 calls it
CallSquare8bit ==
    /\ phase = "idle"
    /\ calls < MaxCalls
    /\ calls' = calls + 1
    /\ gratingTex' = square8bit(X, freq)
    /\ UNCHANGED <<X, freq, engine_vars, stim_durations, inter_stimulus_times,
                   event_change_times, event_change_num, stim_num,
                   baseline_stim, card1, stim_vars, exp_vars>>

NextTexture == CallSquare8bit

SpecTexture == InitTexture /\ [][NextTexture]_vars

---------------------------------------------------------------------------
(* Properties of FullFieldDriftExperiment, checked under SpecStimulus. *)

IsExperiment == cls = "FullFieldDriftExperiment"

(* C14: over frames with non-decreasing elapsed time current_event_num    *)
(* never decreases, a call of set_texture_task adds at most 1 to it, and   *)
(* it goes from n to n+1 only in a frame whose time is >=                  *)
(* event_change_times[n] and <= the last change time.                      *)
C14_EventIndexMonotone ==
    [][IsExperiment =>
          /\ time' >= time
          /\ current_event_num' - current_event_num \in {0, 1}
          /\ current_event_num' # current_event_num =>
                /\ "set_texture" \in ran'
                /\ FrameOpen => "set_texture" \notin ran
                /\ time' >= PyIndex(self_event_change_times, current_event_num)
                /\ time' <= PyIndex(event_change_times, -1)]_vars

\* the index moved to the second event exactly at its change time
C14_Witness ==
    /\ IsExperiment
    /\ current_event_num = 2
    /\ time = self_event_change_times[2]
    /\ time = 2
    /\ returned = "cont"

\* the step is a call of set_texture_task that returned
SetTextureReturned ==
    /\ IsExperiment
    /\ \/ ran' = {"set_texture"}
       \/ ran = {"move_texture"} /\ ran' = {"move_texture", "set_texture"}
    /\ raised' = "none"

\* the step is the constructor
ExperimentBuilt == IsExperiment /\ phase = "new" /\ phase' = "built"

\* self.current_event_ind, where it does not raise
current_event_ind == PyIndex(events, current_event_num)

\* the card shows what the current event asks for
CardShowsEvent ==
    IF current_event_ind # -1
    THEN /\ card1.color = "white"
         /\ card1.texture
         /\ card1.R = PyIndex(stim_params, current_event_ind).angle
    ELSE /\ card1.color = "bgcolor"
         /\ ~card1.texture

\* the title names the current event
TitleNamesEvent ==
    IF current_event_ind # -1
    THEN title = FFDETitle(current_event_num, ToString(current_event_ind))
    ELSE current_event_num > 0 => title = FFDETitle(current_event_num, "baseline")

(* C15: after construction and after every call of set_texture_task that  *)
(* returns, the card carries the stimulus texture (colour (1,1,1,1),       *)
(* rotation the stimulus's angle, title 'FFDE <num>: <index>') exactly     *)
(* when events[current_event_num] is not -1, and is at background colour   *)
(* without texture (title 'FFDE <num>: baseline' after a change) exactly   *)
(* when it is -1.                                                          *)
C15_CardTitleFollowEvent ==
    [][(ExperimentBuilt \/ SetTextureReturned) =>
          (CardShowsEvent /\ TitleNamesEvent)']_vars

(* C15 amended: the card follows the event as stated; the title names the  *)
(* event after every such call in a frame with time <= the last change     *)
(* time, and in the closing frame it is either that or 'FFDE Done', which  *)
(* move_texture_task sets when it runs first.                              *)
C15_CardFollowsEvent ==
    [][(ExperimentBuilt \/ SetTextureReturned) =>
          /\ CardShowsEvent'
          /\ time' <= ExpLastChangeTime => TitleNamesEvent'
          /\ TitleNamesEvent' \/ title' = "FFDE Done"]_vars

\* the first stimulus of the test case is on the card
C15_Witness ==
    /\ IsExperiment
    /\ "set_texture" \in ran
    /\ current_event_num = 1
    /\ card1.color = "white" /\ card1.texture /\ card1.R = 90
    /\ title = "FFDE 1: 2"

\* texture_function has returned nothing but arrays set_texture_task accepts
UsableTextures ==
    texture_array = NoArray \/ GeneratedOutcome(texture_array) = "ok"

\* the step is a call of one of the two tasks
ExperimentTaskCalled == IsExperiment /\ phase = "built" /\ ran' # {}

(* C16: both tasks return the continue sentinel in every frame with time  *)
(* <= the last change time and the stop sentinel in the first frame with   *)
(* a greater time; whichever order they run in, the title is then          *)
(* 'FFDE Done', and current_event_num, the card and the title do not       *)
(* change afterwards.                                                      *)
C16_BothTasksStop ==
    /\ [][(ExperimentTaskCalled /\ UsableTextures') =>
             /\ time' <= ExpLastChangeTime => returned' = "cont"
             /\ time' > ExpLastChangeTime =>
                   /\ returned' = "done"
                   /\ tasks' = {} => title' = "FFDE Done"]_vars
    /\ [][(IsExperiment /\ phase = "built" /\ tasks = {}) =>
             UNCHANGED <<current_event_num, card1, title>>]_vars

\* What the tasks do: as C16 says in every frame but one at exactly the
\* last change time that finds every earlier change applied; there
\* set_texture_task raises IndexError (line 395, events[num_events])
BothTasksStopButAtLast ==
    /\ [][(ExperimentTaskCalled /\ UsableTextures') =>
             /\ time' < ExpLastChangeTime => returned' = "cont"
             /\ time' = ExpLastChangeTime =>
                   \/ returned' = "cont"
                   \/ /\ raised' = "IndexError"
                      /\ current_event_num' = num_events
             /\ time' > ExpLastChangeTime =>
                   /\ returned' = "done"
                   /\ tasks' = {} => title' = "FFDE Done"]_vars
    /\ [][(IsExperiment /\ phase = "built" /\ tasks = {}) =>
             UNCHANGED <<current_event_num, card1, title>>]_vars

(* C18: with an experiment structure built as in test case 5 (one change *)
(* time per event, the last the end of the final baseline)                 *)
(* current_event_num stays < num_events in every reachable state, also     *)
(* after a frame at exactly the last change time, so                       *)
(* events[current_event_num] never raises IndexError.                      *)
C18_EventIndexInBounds ==
    IsExperiment =>
        /\ Len(self_event_change_times) = num_events
        /\ current_event_num < num_events
        /\ raised = "IndexError" => texture_array.empty

\* the event list starts with baseline and alternates baseline and stimulus
AlternatingEvents ==
    \A i \in 1 .. num_events : (events[i] = -1) <=> (i % 2 = 1)

\* the step reads self.texture_stage: setTexPos in move_texture_task
\* (line 447) or clearTexture in set_texture_task (line 397)
ReadsTextureStage ==
    /\ ExperimentTaskCalled
    /\ \/ card1'.moved
       \/ raised' = "AttributeError"
       \/ /\ current_event_num' # current_event_num
          /\ current_event_num' < num_events
          /\ PyIndex(events, current_event_num') = -1

(* C20: with an event list that starts with baseline and alternates, in   *)
(* whichever order the two tasks run within a frame, neither reads         *)
(* self.texture_stage before set_texture_task has created it at the first  *)
(* stimulus onset.                                                         *)
C20_StageCreatedBeforeRead ==
    /\ [](IsExperiment => (AlternatingEvents /\ raised # "AttributeError"))
    /\ [][ReadsTextureStage => texture_stage]_vars
    /\ [][(IsExperiment /\ ~texture_stage /\ texture_stage') =>
             /\ current_event_num' = 1
             /\ "set_texture" \in ran']_vars

\* move_texture_task ran before set_texture_task in the frame of the first
\* stimulus onset and moved the texture in the next frame
C20_Witness ==
    /\ IsExperiment
    /\ texture_stage
    /\ current_event_num = 1
    /\ ran = {"move_texture"}
    /\ card1.moved
    /\ time = 2
    /\ self_event_change_times[1] = 1

\* the step is a call of set_texture_task that raised ValueError
SetTextureRejected == IsExperiment /\ raised = "none" /\ raised' = "ValueError"

(* C21: when set_texture_task raises ValueError for a generated texture   *)
(* of unsupported element type or dimensionality, the display is as before *)
(* the call: the card's colour, attached texture, rotation and offset, the *)
(* texture stage and the window title are unchanged; of the object's       *)
(* attributes only current_event_num (already incremented) and             *)
(* self.texture (a new, empty Texture) differ.                             *)
C21_RejectedLeavesDisplay ==
    [][SetTextureRejected =>
          /\ "set_texture" \in ran'
          /\ (UnsupportedDType(texture_array') \/ texture_array'.ndim \notin {2, 3})
          /\ card1'.color = card1.color
          /\ card1'.texture = card1.texture
          /\ card1'.R = card1.R
          /\ card1'.texpos = card1.texpos
          /\ texture_stage' = texture_stage
          /\ title' = title
          /\ current_event_num' = current_event_num + 1
          /\ texture' = NewTexture
          /\ UNCHANGED <<experiment_structure, stimulus_values,
                         baseline_durations, texture_size, phase>>]_vars

\* the texture generated for the second stimulus has one dimension: the
\* index is at the stimulus, the display still shows the baseline before it
C21_Witness ==
    /\ IsExperiment
    /\ raised = "ValueError"
    /\ texture_array = [dtype |-> "uint8", ndim |-> 1, empty |-> FALSE]
    /\ current_event_num = 3
    /\ title = "FFDE 2: baseline"
    /\ card1.color = "bgcolor" /\ ~card1.texture /\ card1.R = 90
    /\ texture_stage
    /\ texture = NewTexture

=============================================================================
